---- MODULE Spec2Model ----
(***************************************************************************)
(* A model of the hash-linked file-integrity ledger of                     *)
(* backend/blockchain_file_integrity.py (Block, Blockchain,                *)
(* FileIntegrityManager) and of the /register handler of backend/server.py.*)
(*                                                                         *)
(* A SHA-256 hex digest is modelled as a record [hex, pre]: hex is the     *)
(* leading HashLen characters of the digest (digits in 0..Radix-1), a      *)
(* deterministic function of the hashed fields that runs through every     *)
(* value as the nonce grows, and pre is the hashed content, which stands   *)
(* for the remaining characters of a collision-free digest.                *)
(* Python list positions are 0-based: chain[i] of the source is            *)
(* At(chain, i) here.                                                      *)
(***************************************************************************)
EXTENDS Integers, Sequences, FiniteSets, TLC

VARIABLES chain, difficulty, store, files, now, ret, hung, tamper, presave, pc, loc

vars == <<chain, difficulty, store, files, now, ret, hung, tamper, presave, pc, loc>>

----------------------------------------------------------------------------
(* Bounds *)

\* number of characters of a hex digest (64 in the program)
HashLen == 3

\* number of clock readings (= block creations) in one behaviour
MaxBlocks == 3

\* distinct file contents that can be written to a path
NumContents == 2

\* request handler threads of the HTTP front end
NumThreads == 2

----------------------------------------------------------------------------
(* Configuration *)

MINING_DIFFICULTY == 2

Paths == {"a.txt", "b.txt"}

Uploaders == {"u1"}

Contents == 1..NumContents

\* files[p] = Missing when no file exists at path p
Missing == 0

\* the difficulties a Blockchain is constructed with: unmined, the default, and
\* one longer than a digest
Difficulties == {0, MINING_DIFFICULTY, HashLen + 1}

\* the difficulties of a Blockchain that is saved and loaded: unmined and the default
StoreDifficulties == {0, MINING_DIFFICULTY}

\* the characters of a digest (the 16 hex characters in the program)
HexChars == {0, 1}

Radix == Cardinality(HexChars)

Threads == 1..NumThreads

----------------------------------------------------------------------------
(* Digests *)

Min(a, b) == IF a < b THEN a ELSE b

\* s[:n] of Python
Slice(s, n) == SubSeq(s, 1, Min(n, Len(s)))

\* "0" * n
Zeros(n) == [i \in 1..n |-> 0]

\* the sentinel previous hash of the genesis block
SentinelHash == [hex |-> Zeros(HashLen), pre |-> <<>>]

\* self.hash = "" before the first calculate_hash
EmptyHash == [hex |-> <<>>, pre |-> <<>>]

\* the HashLen digits of v, most significant first
Digits(v) == [i \in 1..HashLen |-> (v \div (Radix ^ (HashLen - i))) % Radix]

RECURSIVE HexValue(_)
HexValue(s) == IF s = <<>> THEN 0 ELSE HexValue(SubSeq(s, 1, Len(s) - 1)) * Radix + s[Len(s)]

NameCode(p) == IF p = "a.txt" THEN 1 ELSE IF p = "b.txt" THEN 2 ELSE 3

\* the contribution of a payload (a dict) to the leading digest characters
DataCode(d) ==
    (IF "filename" \in DOMAIN d THEN NameCode(d.filename) ELSE 0)
  + (IF "file_hash" \in DOMAIN d THEN d.file_hash ELSE 0)
  + (IF "file_size" \in DOMAIN d THEN 3 * d.file_size ELSE 0)
  + (IF "timestamp" \in DOMAIN d THEN 5 * d.timestamp ELSE 0)
  + (IF "uploader_id" \in DOMAIN d THEN 1 ELSE 0)
  + (IF "action" \in DOMAIN d THEN (IF d.action = "FILE_REGISTERED" THEN 2 ELSE 1) ELSE 0)

\* hashlib.sha256(json.dumps({...}, sort_keys=True).encode()).hexdigest()
Sha256(index, timestamp, data, previous_hash, nonce) ==
    [hex |-> Digits((3 * index + 7 * timestamp + DataCode(data)
                     + 5 * HexValue(previous_hash.hex) + Len(previous_hash.pre)
                     + 1 + nonce) % (Radix ^ HashLen)),
     pre |-> <<index, timestamp, data, previous_hash, nonce>>]

\* hashlib.sha256 of a file's bytes
get_file_hash(content) == 10 + 3 * content

\* os.stat(filepath).st_size: different contents may have the same size
get_file_size(content) == 4 + (content \div 3)

----------------------------------------------------------------------------
(* Block *)

calculate_hash(b) == Sha256(b.index, b.timestamp, b.data, b.previous_hash, b.nonce)

\* mine_block with the nonce advanced before the match is tested
RECURSIVE mine_block_stale(_)
mine_block_stale(b) ==
    LET h == calculate_hash(b)
    IN  IF Slice(h.hex, b.difficulty) = Zeros(b.difficulty)
        THEN [b EXCEPT !.nonce = @ + 1, !.hash = h]
        ELSE mine_block_stale([b EXCEPT !.nonce = @ + 1, !.hash = h])

\* mine_block that never accepts nonce 0
RECURSIVE mine_block_skipzero(_)
mine_block_skipzero(b) ==
    LET h == calculate_hash(b)
    IN  IF b.nonce > 0 /\ Slice(h.hex, b.difficulty) = Zeros(b.difficulty)
        THEN [b EXCEPT !.hash = h]
        ELSE mine_block_skipzero([b EXCEPT !.nonce = @ + 1, !.hash = h])

\* mine_block with a target one character short
RECURSIVE mine_block_short(_)
mine_block_short(b) ==
    LET h == calculate_hash(b)
    IN  IF Slice(h.hex, b.difficulty - 1) = Zeros(b.difficulty - 1)
        THEN [b EXCEPT !.hash = h]
        ELSE mine_block_short([b EXCEPT !.nonce = @ + 1, !.hash = h])

\* the while True loop of mine_block has no exit but the match
RECURSIVE mine_block(_)
mine_block(b) ==
    LET h == calculate_hash(b)
    IN  IF Slice(h.hex, b.difficulty) = Zeros(b.difficulty)
        THEN [b EXCEPT !.hash = h]
        ELSE mine_block([b EXCEPT !.nonce = @ + 1, !.hash = h])

\* mine_block returns: some digest passes the test of its loop, hash[:d] == "0" * d
MineHalts(d) == \E hex \in [1..HashLen -> HexChars] : Slice(hex, d) = Zeros(d)

\* Block.__init__ whose nonce starts at 1
Block_nonce1(index, previous_hash, timestamp, data, d) ==
    LET b == [index |-> index, timestamp |-> timestamp, data |-> data,
              previous_hash |-> previous_hash, nonce |-> 1, difficulty |-> d,
              hash |-> EmptyHash]
    IN  IF d > 0 THEN mine_block(b) ELSE [b EXCEPT !.hash = calculate_hash(b)]

Block(index, previous_hash, timestamp, data, d) ==
    LET b == [index |-> index, timestamp |-> timestamp, data |-> data,
              previous_hash |-> previous_hash, nonce |-> 0, difficulty |-> d,
              hash |-> EmptyHash]
    IN  IF d > 0 THEN mine_block(b) ELSE [b EXCEPT !.hash = calculate_hash(b)]

to_dict(b) ==
    [index |-> b.index, timestamp |-> b.timestamp, data |-> b.data,
     previous_hash |-> b.previous_hash, nonce |-> b.nonce,
     difficulty |-> b.difficulty, hash |-> b.hash]

\* from_dict without the two assignments that restore nonce and hash
from_dict_remined(block_dict) ==
    Block(block_dict.index, block_dict.previous_hash, block_dict.timestamp, block_dict.data,
          IF "difficulty" \in DOMAIN block_dict THEN block_dict.difficulty ELSE 0)

\* Block(...) runs __init__, which mines when the stored difficulty is > 0
from_dict(block_dict) ==
    LET block == Block(block_dict.index, block_dict.previous_hash, block_dict.timestamp,
                       block_dict.data,
                       IF "difficulty" \in DOMAIN block_dict THEN block_dict.difficulty ELSE 0)
    IN  [block EXCEPT !.nonce = block_dict.nonce, !.hash = block_dict.hash]

----------------------------------------------------------------------------
(* Blockchain *)

At(c, i) == c[i + 1]

genesis_data(t) ==
    [note |-> "Genesis Block - Blockchain Initialized", action |-> "GENESIS",
     timestamp |-> t, uploader_id |-> "system"]

genesis_block(t) == Block(0, SentinelHash, t, genesis_data(t), 0)

\* add_block linking the new block to the sentinel instead of the latest hash
new_block_unlinked(latest_block, t, file_data, d) ==
    Block(latest_block.index + 1, [hex |-> Zeros(HashLen), pre |-> <<>>], t, file_data, d)

\* add_block reusing the index of the latest block
new_block_sameindex(latest_block, t, file_data, d) ==
    Block(latest_block.index, latest_block.hash, t, file_data, d)

\* the new block of add_block, given the latest block it read
new_block(latest_block, t, file_data, d) ==
    Block(latest_block.index + 1, latest_block.hash, t, file_data, d)

HasFile(b, filename) == "filename" \in DOMAIN b.data /\ b.data.filename = filename

\* the scan running over self.chain instead of reversed(self.chain)
find_latest_from_first(c, filename, i) ==
    IF \A j \in 0..i : ~HasFile(At(c, j), filename) THEN -1
    ELSE CHOOSE j \in 0..i : /\ HasFile(At(c, j), filename)
                             /\ \A k \in 0..(j - 1) : ~HasFile(At(c, k), filename)

\* the scan of reversed(self.chain) from position i down
RECURSIVE find_latest_from(_, _, _)
find_latest_from(c, filename, i) ==
    IF i < 0 THEN -1
    ELSE IF HasFile(At(c, i), filename) THEN i
    ELSE find_latest_from(c, filename, i - 1)

\* position of the block find_latest_block_for_file returns, -1 for None
find_latest_block_for_file(c, filename) == find_latest_from(c, filename, Len(c) - 1)

\* the list comprehension of get_file_history over positions i..len-1: the
\* positions of the blocks it returns, in the order it returns them
RECURSIVE file_history_from(_, _, _)
file_history_from(c, filename, i) ==
    IF i >= Len(c) THEN <<>>
    ELSE IF HasFile(At(c, i), filename)
    THEN <<i>> \o file_history_from(c, filename, i + 1)
    ELSE file_history_from(c, filename, i + 1)

get_file_history(c, filename) == file_history_from(c, filename, 0)

Passed == [ok |-> TRUE, index |-> -1, reason |-> "none"]

Failed(i, why) == [ok |-> FALSE, index |-> i, reason |-> why]

\* is_valid without the stored-hash check
RECURSIVE is_valid_from_nohash(_, _)
is_valid_from_nohash(c, i) ==
    IF i >= Len(c) THEN Passed
    ELSE IF At(c, i).previous_hash # At(c, i - 1).hash
    THEN Failed(i, "link broken")
    ELSE IF At(c, i).difficulty > 0
            /\ Slice(At(c, i).hash.hex, At(c, i).difficulty) # Zeros(At(c, i).difficulty)
    THEN Failed(i, "difficulty unmet")
    ELSE is_valid_from_nohash(c, i + 1)

\* is_valid with the link check ahead of the stored-hash check
RECURSIVE is_valid_from_linkfirst(_, _)
is_valid_from_linkfirst(c, i) ==
    IF i >= Len(c) THEN Passed
    ELSE IF At(c, i).previous_hash # At(c, i - 1).hash
    THEN Failed(i, "link broken")
    ELSE IF At(c, i).hash # calculate_hash(At(c, i))
    THEN Failed(i, "hash corrupted")
    ELSE IF At(c, i).difficulty > 0
            /\ Slice(At(c, i).hash.hex, At(c, i).difficulty) # Zeros(At(c, i).difficulty)
    THEN Failed(i, "difficulty unmet")
    ELSE is_valid_from_linkfirst(c, i + 1)

\* the loop of is_valid from position i on, with the failure it prints
RECURSIVE is_valid_from(_, _)
is_valid_from(c, i) ==
    IF i >= Len(c) THEN Passed
    ELSE LET current_block == At(c, i)
             previous_block == At(c, i - 1)
         IN  IF current_block.hash # calculate_hash(current_block)
             THEN Failed(i, "hash corrupted")
             ELSE IF current_block.previous_hash # previous_block.hash
             THEN Failed(i, "link broken")
             ELSE IF current_block.difficulty > 0
                     /\ Slice(current_block.hash.hex, current_block.difficulty)
                            # Zeros(current_block.difficulty)
             THEN Failed(i, "difficulty unmet")
             ELSE is_valid_from(c, i + 1)

\* is_valid that checks the stored hash of the first block as well
is_valid_report_genesis(c) ==
    IF c # <<>> /\ c[1].hash # calculate_hash(c[1])
    THEN Failed(0, "hash corrupted")
    ELSE is_valid_from(c, 1)

\* is_valid whose loop starts one block late
is_valid_report_late(c) == is_valid_from(c, 2)

\* the verdict of is_valid with the block and the check it fails at
is_valid_report(c) == is_valid_from(c, 1)

is_valid(c) == is_valid_report(c).ok

\* the document save_chain writes: a file that exists and parses as JSON, with
\* the keys "difficulty" and "blocks"
chain_data(c, d) ==
    [exists |-> TRUE, parsable |-> TRUE, difficulty |-> d,
     blocks |-> [i \in 1..Len(c) |-> to_dict(c[i])]]

NoStore == [exists |-> FALSE, parsable |-> FALSE, difficulty |-> 0, blocks |-> <<>>]

\* dict.get(key, default)
Get(dict, key, default) == IF key \in DOMAIN dict THEN dict[key] ELSE default

\* Block.__init__ enters mine_block for this stored block
mines(block_dict) == Get(block_dict, "difficulty", 0) > 0

\* how from_dict ends: the arguments of Block(...) are read first, then
\* __init__ mines, then nonce and hash are read
from_dict_outcome(block_dict) ==
    IF ~({"index", "previous_hash", "timestamp", "data"} \subseteq DOMAIN block_dict)
    THEN "KeyError"
    ELSE IF ~MineHalts(Get(block_dict, "difficulty", 0))
    THEN "hang"
    ELSE IF ~({"nonce", "hash"} \subseteq DOMAIN block_dict)
    THEN "KeyError"
    ELSE "ok"

\* how the list comprehension of load_chain ends, from block i (1-based) on
RECURSIVE load_outcome_from(_, _)
load_outcome_from(blocks, i) ==
    IF i > Len(blocks) THEN "ok"
    ELSE IF from_dict_outcome(blocks[i]) # "ok" THEN from_dict_outcome(blocks[i])
    ELSE load_outcome_from(blocks, i + 1)

\* how load_chain ends on a store that exists
load_outcome(s) ==
    IF ~s.parsable THEN "JSONDecodeError"
    ELSE IF "blocks" \notin DOMAIN s THEN "KeyError"
    ELSE load_outcome_from(s.blocks, 1)

\* every from_dict of load_chain returns
LoadHalts(s) == load_outcome(s) # "hang"

\* the positions get_statistics loops over: every block but the first
StatPositions(c) == 1..(Len(c) - 1)

\* the dict get_statistics returns; a value that is absent or empty is not counted
get_statistics(c, d) ==
    [total_blocks |-> Len(c),
     files_tracked |-> Cardinality({At(c, i).data.filename :
                           i \in {j \in StatPositions(c) : "filename" \in DOMAIN At(c, j).data}}),
     unique_uploaders |-> Cardinality({At(c, i).data.uploader_id :
                           i \in {j \in StatPositions(c) : "uploader_id" \in DOMAIN At(c, j).data}}),
     actions |-> [a \in {Get(At(c, i).data, "action", "UNKNOWN") : i \in StatPositions(c)} |->
                     Cardinality({i \in StatPositions(c) :
                                      Get(At(c, i).data, "action", "UNKNOWN") = a})],
     difficulty |-> d]

loaded_chain(s) == [i \in 1..Len(s.blocks) |-> from_dict(s.blocks[i])]

----------------------------------------------------------------------------
(* FileIntegrityManager *)

\* file_data that records the default uploader instead of the one given
file_data_anonymous(filepath, content, uploader_id, action, t) ==
    [filename |-> filepath, file_hash |-> get_file_hash(content),
     file_size |-> get_file_size(content), uploader_id |-> "anonymous",
     action |-> action, timestamp |-> t]

\* the payload register_file builds for a readable file
file_data(filepath, content, uploader_id, action, t) ==
    [filename |-> filepath, file_hash |-> get_file_hash(content),
     file_size |-> get_file_size(content), uploader_id |-> uploader_id,
     action |-> action, timestamp |-> t]

\* payloads handed to add_block directly: one without a filename, and one whose
\* recorded size differs from the size of the content with that hash
DirectPayloads(t) ==
    { [action |-> "NOTE", uploader_id |-> "u1"],
      [filename |-> "a.txt", file_hash |-> get_file_hash(1),
       file_size |-> get_file_size(1) + 1, uploader_id |-> "u1",
       action |-> "FILE_REGISTERED", timestamp |-> t] }

\* verify_file_integrity that also requires the recorded size to match
verify_file_integrity_size(c, fs, filepath) ==
    LET pos == find_latest_block_for_file(c, filepath)
        same == /\ get_file_hash(fs[filepath]) = At(c, pos).data.file_hash
                /\ get_file_size(fs[filepath]) = At(c, pos).data.file_size
    IN  IF pos = -1
        THEN [ok |-> FALSE, verdict |-> "NoRecord", index |-> -1, recorded |-> 0, current |-> 0]
        ELSE IF fs[filepath] = Missing
        THEN [ok |-> FALSE, verdict |-> "Unreadable", index |-> At(c, pos).index,
              recorded |-> 0, current |-> 0]
        ELSE [ok |-> same, verdict |-> IF same THEN "Verified" ELSE "Tampered",
              index |-> At(c, pos).index, recorded |-> At(c, pos).data.file_hash,
              current |-> get_file_hash(fs[filepath])]

\* the outcome of verify_file_integrity on a path
verify_file_integrity(c, fs, filepath) ==
    LET pos == find_latest_block_for_file(c, filepath)
    IN  IF pos = -1
        THEN [ok |-> FALSE, verdict |-> "NoRecord", index |-> -1, recorded |-> 0, current |-> 0]
        ELSE IF fs[filepath] = Missing
        THEN [ok |-> FALSE, verdict |-> "Unreadable", index |-> At(c, pos).index,
              recorded |-> 0, current |-> 0]
        ELSE IF "file_hash" \notin DOMAIN At(c, pos).data
        THEN [ok |-> FALSE, verdict |-> "Raised", index |-> At(c, pos).index,
              recorded |-> 0, current |-> get_file_hash(fs[filepath])]
        ELSE [ok |-> get_file_hash(fs[filepath]) = At(c, pos).data.file_hash,
              verdict |-> IF get_file_hash(fs[filepath]) = At(c, pos).data.file_hash
                          THEN "Verified" ELSE "Tampered",
              index |-> At(c, pos).index,
              recorded |-> At(c, pos).data.file_hash,
              current |-> get_file_hash(fs[filepath])]

\* what verify_file_integrity hands to its caller: the bool it returns, or the
\* TypeError of stored_hash[:30] when the recorded payload has no file_hash
verify_result(v) ==
    IF v.verdict = "Raised" THEN "TypeError" ELSE IF v.ok THEN "True" ELSE "False"

\* the JSON body the /verify route answers with
verify_response(result) ==
    IF result = "TypeError"
    THEN [success |-> FALSE, error |-> "TypeError"]
    ELSE [success |-> result = "True",
          message |-> IF result = "True" THEN "integrity verified"
                      ELSE "appears tampered or unregistered"]

----------------------------------------------------------------------------
(* State *)

NoTamper == [kind |-> "none", pos |-> -1]

NoRet == [op |-> "none", ok |-> TRUE]

NoPresave == [saved |-> FALSE, chain |-> <<>>, difficulty |-> 0, verdict |-> TRUE,
              tamper |-> NoTamper]

IdleLoc == [path |-> "a.txt", data |-> [action |-> "NONE"], latest |-> 0, block |-> 0, snap |-> NoStore, ok |-> FALSE]

\* Blockchain(difficulty) just constructed, nothing persisted, no file on disk
Init ==
    /\ chain = <<>>
    /\ difficulty \in Difficulties
    /\ store = NoStore
    /\ files = [p \in Paths |-> Missing]
    /\ now = 0
    /\ ret = NoRet
    /\ hung = FALSE
    /\ tamper = NoTamper
    /\ presave = NoPresave
    /\ pc = [t \in Threads |-> "idle"]
    /\ loc = [t \in Threads |-> IdleLoc]

----------------------------------------------------------------------------
(* Operations, one caller at a time *)

\* create_genesis_block; its callers run it once, on the empty chain of a failed load
CreateGenesis ==
    /\ ~hung
    /\ chain = <<>>
    /\ now < MaxBlocks
    /\ chain' = Append(chain, genesis_block(now))
    /\ now' = now + 1
    /\ ret' = [op |-> "create_genesis_block", ok |-> TRUE]
    /\ UNCHANGED <<difficulty, store, files, hung, tamper, presave, pc, loc>>

\* add_block that inserts the new block at the front of the list
add_block_chain_front(c, data, t, d) ==
    IF c = <<>> THEN c ELSE <<new_block(c[Len(c)], t, data, d)>> \o c

\* add_block that puts the new block in the place of the latest one
add_block_chain_replacing(c, data, t, d) ==
    IF c = <<>> THEN c
    ELSE IF Len(c) = 1 THEN Append(c, new_block(c[Len(c)], t, data, d))
    ELSE Append(SubSeq(c, 1, Len(c) - 1), new_block(c[Len(c) - 1], t, data, d))

\* the effect of add_block(data) on the chain and its return value
add_block_chain(c, data, t, d) ==
    IF c = <<>> THEN c ELSE Append(c, new_block(c[Len(c)], t, data, d))

\* add_block answering for the payload alone
add_block_ok_payload(c, data) == "filename" \in DOMAIN data

add_block_ok(c, data) == c # <<>> /\ "filename" \in DOMAIN data

\* add_block, called directly (op = "add_block") or at the end of register_file
\* args are the arguments of the outermost call
AddBlockStep(data, op, args) ==
    /\ ~hung
    /\ IF chain = <<>>
       THEN /\ ret' = [op |-> op, ok |-> add_block_ok(chain, data), data |-> data,
                       before |-> chain, args |-> args]
            /\ UNCHANGED <<chain, now, hung>>
       ELSE IF ~MineHalts(difficulty)
       THEN /\ hung' = TRUE
            /\ ret' = [op |-> "mine_block", ok |-> FALSE, caller |-> op]
            /\ UNCHANGED <<chain, now>>
       ELSE /\ now < MaxBlocks
            /\ chain' = add_block_chain(chain, data, now, difficulty)
            /\ now' = now + 1
            /\ ret' = [op |-> op, ok |-> add_block_ok(chain, data), data |-> data,
                       before |-> chain, args |-> args]
            /\ UNCHANGED hung
    /\ UNCHANGED <<difficulty, store, files, tamper, presave, pc, loc>>

AddBlock ==
    \E data \in DirectPayloads(now) : AddBlockStep(data, "add_block", [data |-> data])

RegisterFile ==
    \E filepath \in Paths, uploader_id \in Uploaders :
        IF files[filepath] = Missing
        THEN /\ ~hung
             /\ ret' = [op |-> "register_file", ok |-> FALSE,
                        data |-> [filename |-> filepath], before |-> chain,
                        args |-> [filepath |-> filepath, uploader_id |-> uploader_id,
                                  action |-> "FILE_REGISTERED"]]
             /\ UNCHANGED <<chain, difficulty, store, files, now, hung, tamper, presave, pc, loc>>
        ELSE AddBlockStep(file_data(filepath, files[filepath], uploader_id,
                                    "FILE_REGISTERED", now), "register_file",
                          [filepath |-> filepath, uploader_id |-> uploader_id,
                           action |-> "FILE_REGISTERED"])

VerifyFile ==
    \E filepath \in Paths :
        /\ ~hung
        /\ ret' = [op |-> "verify_file_integrity", path |-> filepath,
                   result |-> verify_result(verify_file_integrity(chain, files, filepath)),
                   response |-> verify_response(verify_result(
                                    verify_file_integrity(chain, files, filepath)))]
                    @@ verify_file_integrity(chain, files, filepath)
        /\ UNCHANGED <<chain, difficulty, store, files, now, hung, tamper, presave, pc, loc>>

\* the environment writes, changes or removes a file
WriteFile ==
    \E filepath \in Paths, content \in Contents \cup {Missing} :
        /\ ~hung
        /\ files[filepath] # content
        /\ files' = [files EXCEPT ![filepath] = content]
        /\ ret' = NoRet
        /\ UNCHANGED <<chain, difficulty, store, now, hung, tamper, presave, pc, loc>>

FindLatest ==
    \E filename \in Paths :
        /\ ~hung
        /\ ret' = [op |-> "find_latest_block_for_file", ok |-> TRUE, path |-> filename,
                   pos |-> find_latest_block_for_file(chain, filename)]
        /\ UNCHANGED <<chain, difficulty, store, files, now, hung, tamper, presave, pc, loc>>

FileHistory ==
    \E filename \in Paths :
        /\ ~hung
        /\ ret' = [op |-> "get_file_history", ok |-> TRUE, path |-> filename,
                   history |-> get_file_history(chain, filename)]
        /\ UNCHANGED <<chain, difficulty, store, files, now, hung, tamper, presave, pc, loc>>

\* what a call of is_valid returns, with whether the call before it was a call
\* of is_valid too and the verdict of the first call of the run
ValidateRet(report) ==
    [op |-> "is_valid",
     again |-> ret.op = "is_valid",
     first |-> IF ret.op = "is_valid" THEN ret.first ELSE report.ok] @@ report

\* is_valid that rewrites the stored hash of the block it fails
Validate_repairing ==
    /\ ~hung
    /\ ret' = ValidateRet(is_valid_report(chain))
    /\ chain' = IF is_valid(chain) THEN chain
                ELSE LET i == is_valid_report(chain).index
                     IN  [chain EXCEPT ![i + 1].hash = calculate_hash(At(chain, i))]
    /\ UNCHANGED <<difficulty, store, files, now, hung, tamper, presave, pc, loc>>

Statistics ==
    /\ ~hung
    /\ ret' = [op |-> "get_statistics", ok |-> TRUE, stats |-> get_statistics(chain, difficulty)]
    /\ UNCHANGED <<chain, difficulty, store, files, now, hung, tamper, presave, pc, loc>>

Validate ==
    /\ ~hung
    /\ ret' = ValidateRet(is_valid_report(chain))
    /\ UNCHANGED <<chain, difficulty, store, files, now, hung, tamper, presave, pc, loc>>

SaveChain ==
    /\ ~hung
    /\ store' = chain_data(chain, difficulty)
    /\ presave' = [saved |-> TRUE, chain |-> chain, difficulty |-> difficulty,
                   verdict |-> is_valid(chain), tamper |-> tamper]
    /\ ret' = [op |-> "save_chain", ok |-> TRUE]
    /\ UNCHANGED <<chain, difficulty, files, now, hung, tamper, pc, loc>>

\* the return value of load_chain with the number of blocks it mined
LoadRet(ok, mined) == [op |-> "load_chain", ok |-> ok, mined |-> mined]

LoadChain ==
    /\ ~hung
    /\ IF ~store.exists \/ load_outcome(store) = "JSONDecodeError"
       THEN /\ ret' = LoadRet(FALSE, 0)
            /\ UNCHANGED <<chain, difficulty, hung, tamper>>
       ELSE IF load_outcome(store) = "KeyError"
       THEN /\ difficulty' = Get(store, "difficulty", MINING_DIFFICULTY)
            /\ ret' = LoadRet(FALSE, 0)
            /\ UNCHANGED <<chain, hung, tamper>>
       ELSE IF ~LoadHalts(store)
       THEN /\ hung' = TRUE
            /\ difficulty' = Get(store, "difficulty", MINING_DIFFICULTY)
            /\ ret' = [op |-> "mine_block", ok |-> FALSE, caller |-> "load_chain"]
            /\ UNCHANGED <<chain, tamper>>
       ELSE /\ difficulty' = Get(store, "difficulty", MINING_DIFFICULTY)
            /\ chain' = loaded_chain(store)
            /\ tamper' = presave.tamper
            /\ ret' = LoadRet(TRUE, Cardinality({i \in 1..Len(store.blocks) :
                                                   mines(store.blocks[i])}))
            /\ UNCHANGED hung
    /\ UNCHANGED <<store, files, now, presave, pc, loc>>

\* a dict without one of its keys
Without(dict, key) == [k \in DOMAIN dict \ {key} |-> dict[k]]

\* a file that is not JSON: nothing can be read from it
Unparsable == [exists |-> TRUE, parsable |-> FALSE]

\* the stores a damaged or edited file can hold in place of s: not JSON, no
\* "blocks" key, or a last block record without its nonce or its hash
DamagedStores(s) ==
    {Unparsable, Without(s, "blocks")}
    \cup (IF s.blocks = <<>> THEN {}
          ELSE {[s EXCEPT !.blocks[Len(s.blocks)] = Without(@, key)] :
                    key \in {"nonce", "hash"}})

\* the file written by save_chain is damaged outside the program, one fault
\* at a time: neither the chain nor the saved blocks have been tampered with
DamageStore ==
    /\ ~hung
    /\ presave.saved
    /\ tamper = NoTamper
    /\ presave.tamper = NoTamper
    /\ store = chain_data(presave.chain, presave.difficulty)
    /\ \E s \in DamagedStores(store) : store' = s
    /\ presave' = NoPresave
    /\ ret' = NoRet
    /\ UNCHANGED <<chain, difficulty, files, now, hung, tamper, pc, loc>>

\* the process ends and a new one constructs Blockchain(difficulty)
Restart ==
    /\ chain # <<>>
    /\ chain' = <<>>
    /\ difficulty' \in StoreDifficulties
    /\ hung' = FALSE
    /\ tamper' = NoTamper
    /\ ret' = NoRet
    /\ UNCHANGED <<store, files, now, presave, pc, loc>>

----------------------------------------------------------------------------
(* Tampering: one field of one stored block is changed behind the program's back *)

OtherData(d) ==
    ({[d EXCEPT !.action = "TAMPERED"], [action |-> "NOTE"]}
        \cup (IF "file_hash" \in DOMAIN d THEN {[d EXCEPT !.file_hash = @ + 1]} ELSE {}))
    \ {d}

JunkHash == [hex |-> Zeros(HashLen), pre |-> <<0>>]

OtherHashes(c, h) ==
    ({SentinelHash, JunkHash} \cup {c[j].hash : j \in 1..Len(c)}) \ {h}

TamperedValues(c, i, field) ==
    CASE field = "data" -> OtherData(At(c, i).data)
      [] field = "previous_hash" -> OtherHashes(c, At(c, i).previous_hash)
      [] field = "hash" -> OtherHashes(c, At(c, i).hash)
      [] field = "nonce" -> {At(c, i).nonce + 1}
      [] field = "difficulty" -> {0, MINING_DIFFICULTY, HashLen + 1} \ {At(c, i).difficulty}

TamperFields == {"data", "previous_hash", "hash", "nonce", "difficulty"}

Tamper ==
    \E i \in 0..(Len(chain) - 1), field \in TamperFields :
        \E v \in TamperedValues(chain, i, field) :
            /\ ~hung
            /\ tamper.kind = "none"
            /\ chain' = [chain EXCEPT ![i + 1] = [@ EXCEPT ![field] = v]]
            /\ tamper' = [kind |-> field, pos |-> i]
            /\ ret' = NoRet
            /\ UNCHANGED <<difficulty, store, files, now, hung, presave, pc, loc>>

Next ==
    \/ CreateGenesis
    \/ AddBlock
    \/ RegisterFile
    \/ VerifyFile
    \/ WriteFile
    \/ Validate
    \/ FindLatest
    \/ FileHistory

Spec == Init /\ [][Next]_vars

\* the operations of the menu on a ledger, with one file on disk and one
\* path that does not exist
InitOps ==
    /\ chain = <<>>
    /\ difficulty \in StoreDifficulties
    /\ store = NoStore
    /\ files = [p \in Paths |-> IF p = "a.txt" THEN 1 ELSE Missing]
    /\ now = 0
    /\ ret = NoRet
    /\ hung = FALSE
    /\ tamper = NoTamper
    /\ presave = NoPresave
    /\ pc = [t \in Threads |-> "idle"]
    /\ loc = [t \in Threads |-> IdleLoc]

NextOps ==
    \/ CreateGenesis
    \/ AddBlock
    \/ RegisterFile
    \/ VerifyFile
    \/ Validate
    \/ FindLatest
    \/ FileHistory
    \/ Statistics
    \/ SaveChain

SpecOps == InitOps /\ [][NextOps]_vars

\* the ledger with its persisted store, mined at the default difficulty or unmined
NextStore ==
    \/ CreateGenesis
    \/ AddBlock
    \/ Tamper
    \/ Validate
    \/ SaveChain
    \/ LoadChain
    \/ DamageStore
    \/ Restart

InitStore == Init /\ difficulty \in StoreDifficulties

SpecStore == InitStore /\ [][NextStore]_vars

----------------------------------------------------------------------------
(* The /register handler of the HTTP front end, one thread per request.    *)
(* The statements of a handler that touch the shared chain, the store or   *)
(* a file are separate steps; no lock is taken anywhere in the source.     *)

\* the server after start-up: no store was found, a genesis block was created and saved
InitConc ==
    /\ chain = <<genesis_block(0)>>
    /\ difficulty = MINING_DIFFICULTY
    /\ store = chain_data(<<genesis_block(0)>>, MINING_DIFFICULTY)
    /\ files = [p \in Paths |-> Missing]
    /\ now = 1
    /\ ret = NoRet
    /\ hung = FALSE
    /\ tamper = NoTamper
    /\ presave = NoPresave
    /\ pc = [t \in Threads |-> "idle"]
    /\ loc = [t \in Threads |-> IdleLoc]

\* a request arrives: f.save(path) stores the upload
ReqSave(t) ==
    \E filepath \in Paths, content \in Contents :
        /\ pc[t] = "idle"
        /\ now < MaxBlocks
        /\ now' = now + 1
        /\ files' = [files EXCEPT ![filepath] = content]
        /\ loc' = [loc EXCEPT ![t] = [IdleLoc EXCEPT !.path = filepath]]
        /\ pc' = [pc EXCEPT ![t] = "register_file"]
        /\ UNCHANGED <<chain, difficulty, store, ret, hung, tamper, presave>>

\* register_file up to the call of add_block: hash the file and build file_data
RegHash(t) ==
    /\ pc[t] = "register_file"
    /\ IF files[loc[t].path] = Missing
       THEN /\ loc' = [loc EXCEPT ![t].ok = FALSE]
            /\ pc' = [pc EXCEPT ![t] = "save_chain"]
       ELSE /\ loc' = [loc EXCEPT ![t].data =
                          file_data(loc[t].path, files[loc[t].path], "u1",
                                    "FILE_REGISTERED", now)]
            /\ pc' = [pc EXCEPT ![t] = "add_block"]
    /\ UNCHANGED <<chain, difficulty, store, files, now, ret, hung, tamper, presave>>

\* add_block reads the latest block and the clock, then mines the new block
AbRead(t) ==
    /\ pc[t] = "add_block"
    /\ loc' = [loc EXCEPT ![t].latest = chain[Len(chain)].index,
                          ![t].block = new_block(chain[Len(chain)], now, loc[t].data, difficulty)]
    /\ pc' = [pc EXCEPT ![t] = "append"]
    /\ UNCHANGED <<chain, difficulty, store, files, now, ret, hung, tamper, presave>>

\* self.chain.append(new_block); return True
AbAppend(t) ==
    /\ pc[t] = "append"
    /\ chain' = Append(chain, loc[t].block)
    /\ loc' = [loc EXCEPT ![t].ok = TRUE]
    /\ pc' = [pc EXCEPT ![t] = "save_chain"]
    /\ UNCHANGED <<difficulty, store, files, now, ret, hung, tamper, presave>>

\* save_chain builds chain_data from the chain as it is now
SaveSnapshot(t) ==
    /\ pc[t] = "save_chain"
    /\ loc' = [loc EXCEPT ![t].snap = chain_data(chain, difficulty)]
    /\ pc' = [pc EXCEPT ![t] = "write"]
    /\ UNCHANGED <<chain, difficulty, store, files, now, ret, hung, tamper, presave>>

\* json.dump writes the document; the handler answers
SaveWrite(t) ==
    /\ pc[t] = "write"
    /\ store' = loc[t].snap
    /\ ret' = [op |-> "register", ok |-> loc[t].ok, thread |-> t]
    /\ pc' = [pc EXCEPT ![t] = "idle"]
    /\ UNCHANGED <<chain, difficulty, files, now, loc, hung, tamper, presave>>

NextConc ==
    \E t \in Threads :
        \/ ReqSave(t)
        \/ RegHash(t)
        \/ AbRead(t)
        \/ AbAppend(t)
        \/ SaveSnapshot(t)
        \/ SaveWrite(t)

SpecConc == InitConc /\ [][NextConc]_vars

----------------------------------------------------------------------------
(* Properties *)

\* 0-based positions of the blocks that carry a file name
FilePositions(c, filename) == {i \in 0..(Len(c) - 1) : HasFile(At(c, i), filename)}

Max(S) == CHOOSE x \in S : \A y \in S : y <= x

LeadingZeros(h, d) == Len(h.hex) >= d /\ \A k \in 1..d : h.hex[k] = 0

\* C1: a chain built by create_genesis_block and any number of add_block
\* calls passes is_valid, and a call of is_valid answers True.
C1_ValidAfterAppends ==
    /\ is_valid(chain)
    /\ ret.op = "is_valid" => ret.ok

C1_Witness ==
    /\ ret.op = "is_valid"
    /\ ret.ok
    /\ Len(chain) = MaxBlocks

\* C2: every block add_block appended stores the hash of its own index,
\* timestamp, data, previous_hash and nonce, and when its difficulty is > 0 the
\* hash begins with that many '0' characters.
C2_BlockInvariant ==
    \A i \in 1..(Len(chain) - 1) :
        /\ At(chain, i).hash = Sha256(At(chain, i).index, At(chain, i).timestamp,
                                      At(chain, i).data, At(chain, i).previous_hash,
                                      At(chain, i).nonce)
        /\ At(chain, i).difficulty > 0 => LeadingZeros(At(chain, i).hash, At(chain, i).difficulty)

C2_Witness ==
    \E i \in 1..(Len(chain) - 1) :
        /\ At(chain, i).difficulty = MINING_DIFFICULTY
        /\ At(chain, i).nonce > 0
        /\ LeadingZeros(At(chain, i).hash, MINING_DIFFICULTY)

\* C3: block 0 has index 0 and the sentinel previous hash; every later block
\* has the index of its position, one more than its predecessor's, and the
\* predecessor's hash as previous_hash.
C3_IndexAndLink ==
    /\ chain # <<>> => At(chain, 0).index = 0 /\ At(chain, 0).previous_hash = SentinelHash
    /\ \A i \in 1..(Len(chain) - 1) :
        /\ At(chain, i).index = i
        /\ At(chain, i).index = At(chain, i - 1).index + 1
        /\ At(chain, i).previous_hash = At(chain, i - 1).hash

C3_Witness ==
    /\ Len(chain) = MaxBlocks
    /\ At(chain, Len(chain) - 1).index = MaxBlocks - 1
    /\ At(chain, Len(chain) - 1).previous_hash # SentinelHash

\* C4: after the data of one non-genesis block i of a valid chain is changed
\* (its stored hash and all other blocks left alone), is_valid fails, and the
\* failure it reports is the stored-hash check of block i.
C4_PayloadTamperDetected ==
    (tamper.kind = "data" /\ tamper.pos >= 1) =>
        /\ is_valid_report(chain) = Failed(tamper.pos, "hash corrupted")
        /\ ret.op = "is_valid" => ~ret.ok /\ ret.index = tamper.pos

C4_Witness ==
    /\ tamper.kind = "data"
    /\ tamper.pos >= 1
    /\ tamper.pos < Len(chain) - 1
    /\ ret.op = "is_valid"
    /\ ~ret.ok
    /\ ret.index = tamper.pos
    /\ ret.reason = "hash corrupted"

\* C5 as stated: after only the previous_hash of a non-genesis block i is
\* changed, is_valid fails at block i with the reason "link broken".
C5_FailsAtLinkCheck ==
    (tamper.kind = "previous_hash" /\ tamper.pos >= 1) =>
        is_valid_report(chain) = Failed(tamper.pos, "link broken")

\* C5 amended: after only the previous_hash of a non-genesis block i is
\* changed, is_valid fails at block i with the reason "hash corrupted": the
\* stored-hash check runs first and previous_hash is part of the hashed content.
C5_FailsAtHashCheck ==
    (tamper.kind = "previous_hash" /\ tamper.pos >= 1) =>
        /\ is_valid_report(chain) = Failed(tamper.pos, "hash corrupted")
        /\ At(chain, tamper.pos).previous_hash # At(chain, tamper.pos - 1).hash
        /\ ret.op = "is_valid" => ~ret.ok /\ ret.reason = "hash corrupted"

C5_Witness ==
    /\ tamper.kind = "previous_hash"
    /\ tamper.pos >= 1
    /\ ret.op = "is_valid"
    /\ ret.index = tamper.pos
    /\ ret.reason = "hash corrupted"

\* C6: verify_file_integrity answers Verified exactly when some block carries
\* the file name and the current hash of the file equals the file_hash of the
\* highest such block; the recorded and current sizes play no part. A Tampered
\* answer reports that block's hash and the file's current hash.
C6_VerifyVerdict ==
    ret.op = "verify_file_integrity" =>
        LET S == FilePositions(chain, ret.path)
        IN  /\ ret.verdict = "Verified" <=>
                   /\ S # {}
                   /\ files[ret.path] # Missing
                   /\ get_file_hash(files[ret.path]) = At(chain, Max(S)).data.file_hash
            /\ ret.ok <=> ret.verdict = "Verified"
            /\ ret.verdict \in {"Verified", "Tampered"} =>
                   /\ ret.index = At(chain, Max(S)).index
                   /\ ret.recorded = At(chain, Max(S)).data.file_hash
                   /\ ret.current = get_file_hash(files[ret.path])
            /\ ret.verdict = "Tampered" => ret.recorded # ret.current

\* the end of register(H1), modify to H2, register(H2), verify: Verified against index 2
C6_Witness ==
    /\ ret.op = "verify_file_integrity"
    /\ ret.verdict = "Verified"
    /\ ret.index = 2
    /\ HasFile(At(chain, 1), ret.path)
    /\ At(chain, 1).data.file_hash # At(chain, 2).data.file_hash

C8_NoBlockOnInvalidPayload ==
    (ret.op = "add_block" /\ ~ret.ok /\ "filename" \notin DOMAIN ret.data) =>
        chain = ret.before

\* C9: add_block on a chain without a genesis block returns False and leaves
\* the chain empty.
C9_AppendBeforeGenesis ==
    (ret.op \in {"add_block", "register_file"} /\ ret.before = <<>>) =>
        /\ ~ret.ok
        /\ chain = <<>>

C9_Witness ==
    /\ ret.op = "add_block"
    /\ ret.before = <<>>
    /\ "filename" \in DOMAIN ret.data
    /\ ~ret.ok
    /\ chain = <<>>

\* C10 as stated: at most one handler is between reading the latest block and
\* appending its block, no two blocks of the chain share an index or a
\* previous_hash, and the chain passes is_valid once no handler is in flight.
C10_MutualExclusion ==
    /\ Cardinality({t \in Threads : pc[t] = "append"}) <= 1
    /\ \A i, j \in 1..Len(chain) :
          i # j => /\ chain[i].index # chain[j].index
                   /\ chain[i].previous_hash # chain[j].previous_hash
    /\ (\A t \in Threads : pc[t] = "idle") => is_valid(chain)
\* C11: get_file_history(f) is the list of the blocks whose data carries the
\* file name f, each once, in ascending position and index order, and
\* find_latest_block_for_file(f) is the last block of that list, or None
\* exactly when the list is empty.
C11_HistoryAndLatest ==
    /\ ret.op = "get_file_history" =>
          /\ {ret.history[k] : k \in 1..Len(ret.history)} = FilePositions(chain, ret.path)
          /\ \A k, l \in 1..Len(ret.history) :
                k < l => /\ ret.history[k] < ret.history[l]
                         /\ At(chain, ret.history[k]).index < At(chain, ret.history[l]).index
    /\ ret.op = "find_latest_block_for_file" =>
          /\ ret.pos = -1 <=> FilePositions(chain, ret.path) = {}
          /\ ret.pos # -1 =>
                /\ ret.pos = Max(FilePositions(chain, ret.path))
                /\ \A i \in FilePositions(chain, ret.path) :
                      At(chain, i).index <= At(chain, ret.pos).index

C11_Witness ==
    /\ ret.op = "find_latest_block_for_file"
    /\ ret.pos = 2
    /\ Cardinality(FilePositions(chain, ret.path)) = 2
\* the digest of block b's hashed fields with nonce n in place of its own
HashWithNonce(b, n) == Sha256(b.index, b.timestamp, b.data, b.previous_hash, n)

\* C12: the nonce of a block created with difficulty d > 0 is the smallest
\* n >= 0 whose digest has d leading '0' characters: the digest with the
\* block's nonce meets the target and no smaller nonce does.
C12_SmallestNonce ==
    \A i \in 1..(Len(chain) - 1) :
        At(chain, i).difficulty > 0 =>
            /\ At(chain, i).nonce >= 0
            /\ LeadingZeros(HashWithNonce(At(chain, i), At(chain, i).nonce),
                            At(chain, i).difficulty)
            /\ \A n \in 0..(At(chain, i).nonce - 1) :
                  ~LeadingZeros(HashWithNonce(At(chain, i), n), At(chain, i).difficulty)

C12_Witness ==
    \E i, j \in 1..(Len(chain) - 1) :
        /\ At(chain, i).difficulty > 0
        /\ At(chain, i).nonce >= 2
        /\ At(chain, j).difficulty > 0
        /\ At(chain, j).nonce = 0
C14_LoadDoesNotMine ==
    /\ ~(ret.op = "mine_block" /\ ret.caller = "load_chain")
    /\ (ret.op = "load_chain" /\ ret.ok) =>
          /\ ret.mined = 0
          /\ \A i \in 1..Len(chain) : /\ chain[i].nonce = store.blocks[i].nonce
                                       /\ chain[i].hash = store.blocks[i].hash

\* C15 as stated: a load_chain that returns False leaves the chain and the
\* difficulty as they were before the call.
C15_FailedLoadLeavesState ==
    [][(ret'.op = "load_chain" /\ ~ret'.ok) =>
            (chain' = chain /\ difficulty' = difficulty)]_vars
\* the kinds of failure of a verification
FailureKinds == {"NoRecord", "Tampered", "Unreadable"}

\* C16 as stated: verifications that fail for different reasons (no record,
\* content changed, file unreadable) hand different results to the caller,
\* both as the return value and as the response of the /verify route.
C16_FailureKindsDistinguished ==
    (ret.op = "verify_file_integrity" /\ ret.verdict \in FailureKinds) =>
        \A other \in Paths :
            LET v == verify_file_integrity(chain, files, other)
            IN  (v.verdict \in FailureKinds /\ v.verdict # ret.verdict) =>
                    /\ verify_result(v) # ret.result
                    /\ verify_response(verify_result(v)) # ret.response
\* C17: register_file on a file that cannot be read returns False and leaves
\* the chain as it was; when register_file returns True, exactly one block was
\* appended, and it carries the file's name, the hash and the size of its
\* content, the uploader id and the action of the call.
C17_RegisterFile ==
    ret.op = "register_file" =>
        /\ files[ret.args.filepath] = Missing => (~ret.ok /\ chain = ret.before)
        /\ ret.ok =>
              /\ Len(chain) = Len(ret.before) + 1
              /\ SubSeq(chain, 1, Len(ret.before)) = ret.before
              /\ LET data == chain[Len(chain)].data
                 IN  /\ data.filename = ret.args.filepath
                     /\ data.file_hash = get_file_hash(files[ret.args.filepath])
                     /\ data.file_size = get_file_size(files[ret.args.filepath])
                     /\ data.uploader_id = ret.args.uploader_id
                     /\ data.action = ret.args.action

C17_Witness ==
    /\ ret.op = "register_file"
    /\ ret.ok
    /\ Len(ret.before) >= 2
    /\ Len(chain) = Len(ret.before) + 1
    /\ \E p \in Paths : files[p] = Missing
\* position i (0-based) holds the block as it was created
Untampered(i) == tamper.pos # i

\* C18: a block created with difficulty 0 (the genesis block, and every block
\* appended while the chain's difficulty is 0) has nonce 0 and the hash of its
\* content with nonce 0; is_valid never fails a block of difficulty 0 on the
\* difficulty check, whatever hash the block holds.
C18_DifficultyZero ==
    /\ (chain # <<>> /\ Untampered(0)) => chain[1].difficulty = 0
    /\ (ret.op \in {"add_block", "register_file"} /\ Len(chain) > Len(ret.before)
            /\ difficulty = 0) => chain[Len(chain)].difficulty = 0
    /\ \A i \in 0..(Len(chain) - 1) :
          /\ (Untampered(i) /\ At(chain, i).difficulty = 0) =>
                /\ At(chain, i).nonce = 0
                /\ At(chain, i).hash = HashWithNonce(At(chain, i), 0)
          /\ At(chain, i).difficulty = 0 =>
                /\ is_valid_report(chain) # Failed(i, "difficulty unmet")
                /\ \A h \in OtherHashes(chain, At(chain, i).hash) :
                      is_valid_report([chain EXCEPT ![i + 1].hash = h])
                          # Failed(i, "difficulty unmet")
    /\ (ret.op = "is_valid" /\ ret.reason = "difficulty unmet") =>
          At(chain, ret.index).difficulty > 0

C18_Witness ==
    /\ difficulty = 0
    /\ Len(chain) >= 3
    /\ tamper.kind = "hash"
    /\ tamper.pos >= 1
    /\ At(chain, tamper.pos).difficulty = 0
    /\ At(chain, tamper.pos).hash.hex # Zeros(HashLen)
    /\ ret.op = "is_valid"
    /\ ~ret.ok
    /\ ret.index = tamper.pos
    /\ ret.reason = "hash corrupted"
\* C19: calls of is_valid made one after the other, with nothing done to the
\* chain in between, all return the verdict of the first of them, whether the
\* chain is valid or not.
C19_ValidateIdempotent ==
    ret.op = "is_valid" =>
        /\ ret.ok = ret.first
        /\ ret.ok = is_valid(chain)

C19_Witness ==
    /\ ret.op = "is_valid"
    /\ ret.again
    /\ ~ret.ok
    /\ ~ret.first
    /\ Len(chain) >= 2
\* the first check, in the order (a) stored hash, (b) link, (c) difficulty,
\* that the block at position i of c violates
FirstViolation(c, i) ==
    IF At(c, i).hash # HashWithNonce(At(c, i), At(c, i).nonce) THEN "hash corrupted"
    ELSE IF At(c, i).previous_hash # At(c, i - 1).hash THEN "link broken"
    ELSE IF At(c, i).difficulty > 0 /\ ~LeadingZeros(At(c, i).hash, At(c, i).difficulty)
    THEN "difficulty unmet"
    ELSE "none"

\* the positions 1..N-1 of c that violate one of the checks
BadPositions(c) == {i \in 1..(Len(c) - 1) : FirstViolation(c, i) # "none"}

\* C20: is_valid returns False exactly when some position in 1..N-1 violates
\* (a) stored hash = recomputed hash, (b) previous_hash = hash of the block
\* before, or (c) difficulty > 0 implies that many leading zeros; the failure
\* it reports is for the lowest such position and, in that block, for the first
\* violated check in the order (a), (b), (c).
C20_FirstViolationReported ==
    ret.op = "is_valid" =>
        LET Bad == BadPositions(chain)
        IN  /\ ~ret.ok <=> Bad # {}
            /\ Bad # {} =>
                  /\ ret.index \in Bad
                  /\ \A j \in Bad : ret.index <= j
                  /\ ret.reason = FirstViolation(chain, ret.index)

C20_Witness ==
    /\ ret.op = "is_valid"
    /\ ~ret.ok
    /\ Cardinality(BadPositions(chain)) >= 2
    /\ ret.index = 1
    /\ ret.reason = "hash corrupted"
    /\ FirstViolation(chain, 2) = "link broken"
\* C21: once is_valid would return False, it still would after an add_block,
\* after a save_chain, and after a load_chain of a store saved from the invalid
\* chain; add_block on an invalid chain still appends its block.
C21_InvalidityMonotonic ==
    [][~is_valid(chain) =>
          /\ ret'.op \in {"add_block", "save_chain"} => ~is_valid(chain')
          /\ ret'.op = "add_block" =>
                /\ Len(chain') = Len(chain) + 1
                /\ SubSeq(chain', 1, Len(chain)) = chain
                /\ ret'.ok = ("filename" \in DOMAIN ret'.data)
          /\ (ret'.op = "load_chain" /\ ret'.ok /\ presave.saved /\ ~presave.verdict) =>
                ~is_valid(chain')]_vars

C21_Witness ==
    /\ ret.op = "add_block"
    /\ ret.ok
    /\ Len(ret.before) >= 2
    /\ ~is_valid(ret.before)
    /\ Len(chain) = Len(ret.before) + 1
    /\ ~is_valid(chain)
    /\ presave.saved
    /\ ~presave.verdict
\* C22 as stated: once every register request has answered, the store holds
\* the document of the whole in-memory chain; no request has overwritten a
\* later save with a snapshot taken before another request's append.
C22_StoreHoldsEveryBlock ==
    (\A t \in Threads : pc[t] = "idle") =>
        /\ Len(store.blocks) = Len(chain)
        /\ store = chain_data(chain, difficulty)
\* the operations that only read the ledger
ReadOnlyOps == {"is_valid", "find_latest_block_for_file", "get_file_history",
                "get_statistics", "save_chain", "verify_file_integrity"}

\* C23: across create_genesis_block, add_block, is_valid,
\* find_latest_block_for_file, get_file_history, get_statistics, save_chain,
\* register_file and verify_file_integrity the chain before an operation is a
\* prefix of the chain after it, so no block already in the chain changes, and
\* the read-only operations leave the chain and the difficulty as they were.
C23_AppendOnly ==
    [][/\ Len(chain') >= Len(chain)
       /\ SubSeq(chain', 1, Len(chain)) = chain
       /\ ret'.op \in ReadOnlyOps => (chain' = chain /\ difficulty' = difficulty)]_vars

C23_Witness ==
    /\ ret.op = "get_statistics"
    /\ ret.stats.total_blocks = Len(chain)
    /\ ret.stats.files_tracked >= 1
    /\ Len(chain) >= 3
    /\ presave.saved
    /\ Len(presave.chain) >= 1
    /\ Len(presave.chain) < Len(chain)
    /\ SubSeq(chain, 1, Len(presave.chain)) = presave.chain
\* the chain c starts with a genesis block
StartsWithGenesis(c) ==
    /\ c # <<>>
    /\ c[1].index = 0
    /\ c[1].previous_hash = SentinelHash

\* C24 as stated: after the start-up sequence on a newly constructed
\* Blockchain (load_chain, then create_genesis_block only if the load returned
\* False) the chain is not empty and starts with a block of index 0 whose
\* previous_hash is the sentinel, whatever the store holds.
C24_GenesisAfterStartup ==
    [][/\ (chain = <<>> /\ ret'.op = "load_chain" /\ ret'.ok) => StartsWithGenesis(chain')
       /\ (chain = <<>> /\ ret.op = "load_chain" /\ ~ret.ok
              /\ ret'.op = "create_genesis_block") => StartsWithGenesis(chain')]_vars
\* the chains that differ from c in one field of block 0 other than its hash
GenesisEdits(c) ==
    {[c EXCEPT ![1][field] = v] : <<field, v>> \in
        UNION {{<<f, w>> : w \in TamperedValues(c, 0, f)} : f \in {"data", "nonce", "difficulty"}}}
    \cup {[c EXCEPT ![1].timestamp = @ + 1]}

\* C25: is_valid checks neither the stored hash nor the difficulty of block 0:
\* a change of only the payload, timestamp, nonce or difficulty of block 0
\* leaves the verdict of is_valid as it was, while a change of the stored hash
\* of block 0 in a chain of two or more blocks that passed is_valid makes it
\* fail at block 1 on the link check.
C25_GenesisUnchecked ==
    /\ chain # <<>> =>
          \A c \in GenesisEdits(chain) : is_valid_report(c) = is_valid_report(chain)
    /\ (Len(chain) >= 2 /\ is_valid(chain)) =>
          \A h \in OtherHashes(chain, chain[1].hash) :
              is_valid_report([chain EXCEPT ![1].hash = h]) = Failed(1, "link broken")
    /\ (ret.op = "is_valid" /\ tamper.pos = 0
            /\ tamper.kind \in {"data", "nonce", "difficulty"}) => ret.ok

C25_Witness ==
    /\ ret.op = "is_valid"
    /\ ret.ok
    /\ tamper.pos = 0
    /\ tamper.kind = "data"
    /\ Len(chain) >= 3
    /\ chain[1].hash # calculate_hash(chain[1])

====
